---- MODULE Spec2Model ----
(***************************************************************************)
(* tinycrypt (src/src/lib.rs): password-based encryption of byte payloads. *)
(*                                                                         *)
(*   encrypt(data, password): salt <- OsRng; key <- argon2::hash_raw;      *)
(*       nonce <- OsRng; ciphertext <- Aes256GcmSiv::encrypt;              *)
(*       bincode::serialize(EncryptedFile {data, nonce, salt})             *)
(*   decrypt(data, password): bincode::deserialize; argon2::hash_raw with  *)
(*       the stored salt; Aes256GcmSiv::decrypt with the stored nonce      *)
(*                                                                         *)
(* Bytes are 0..255 and the container is modelled byte for byte (bincode   *)
(* 1.x: u64 little-endian length prefix for Vec<u8>, fixed arrays written  *)
(* without a prefix, trailing input bytes accepted by bincode::deserialize)*)
(*                                                                         *)
(* The two cryptographic primitives are external crates.  They are         *)
(* modelled by stand-ins with the contract lib.rs relies on:               *)
(*   - hash_raw is deterministic, returns hash_length bytes, and distinct  *)
(*     (password, salt) pairs give distinct keys;                          *)
(*   - the AEAD appends a 16-byte tag, decrypt recomputes the tag from the *)
(*     key, the nonce and the recovered plaintext and rejects a mismatch.  *)
(* Their size limits are kept: rust-argon2 rejects a password longer than  *)
(* 2^32-1 bytes, AES-GCM-SIV rejects a plaintext longer than 2^36 bytes.   *)
(* A slice that long is not enumerated; it is the value with huge = TRUE.  *)
(***************************************************************************)
EXTENDS Integers, Sequences, FiniteSets, TLC

(***************************************************************************)
(* Program constants                                                       *)
(***************************************************************************)
\* nonce: [u8; 12]
NONCE_LEN == 12
\* salt: [u8; 32]
SALT_LEN == 32
\* Config { hash_length: 32, .. }
HASH_LEN == 32
\* the tag Aes256GcmSiv appends to the ciphertext
TAG_LEN == 16
\* bincode writes the length of data: Vec<u8> as a u64
LEN_PREFIX == 8

(***************************************************************************)
(* Bounds of the model                                                     *)
(***************************************************************************)
\* threads calling into the library at the same time
NThreads == 2
\* longest enumerated plaintext, in bytes
MaxPlainLen == 1
\* distinct values OsRng may return for one fill_bytes call
NRandom == 2
\* longest run of extra bytes appended to a container
MaxExtra == 1

Threads == 1..NThreads

PlainBytes == {72}
\* the enumerated passwords: the empty one and "p"
PwdSamples == {<<>>, <<112>>}
ExtraBytes == {0, 255}

RECURSIVE SeqsUpTo(_, _)
\* all sequences over S of length 0..n
SeqsUpTo(S, n) ==
  IF n = 0 THEN {<<>>}
  ELSE LET shorter == SeqsUpTo(S, n - 1)
       IN shorter \cup {Append(s, b) : s \in {x \in shorter : Len(x) = n - 1}, b \in S}

Fill(n, b) == [i \in 1..n |-> b]

\* A byte slice: its bytes, or huge = TRUE for a slice longer than the
\* primitive it is handed to accepts (its bytes are then not enumerated).
Slice(bs) == [huge |-> FALSE, bytes |-> bs]
HugeSlice == [huge |-> TRUE, bytes |-> <<>>]

Plaintexts == {Slice(s) : s \in SeqsUpTo(PlainBytes, MaxPlainLen)} \cup {HugeSlice}
Passwords == {Slice(s) : s \in PwdSamples} \cup {HugeSlice}

\* what OsRng.fill_bytes may leave in a buffer of n bytes
RandomFill(n) == {Fill(n, 37 * r) : r \in 0..(NRandom - 1)}

(***************************************************************************)
(* Result<_, CryptographyError>                                            *)
(***************************************************************************)
CryptographyError ==
  {"DecodingFailure", "EncodingFailure", "KeyGenerationFailure", "IncorrectPassword"}

Ok(v) == [ok |-> TRUE, val |-> v, err |-> "none"]
Err(e) == [ok |-> FALSE, val |-> <<>>, err |-> e]
\* the error of an external crate, before map_err
Fail == [ok |-> FALSE, val |-> <<>>, err |-> "lib"]

(***************************************************************************)
(* bincode: the wire form of EncryptedFile                                 *)
(***************************************************************************)
EncryptedFile(d, n, s) == [data |-> d, nonce |-> n, salt |-> s]
NoFile == EncryptedFile(<<>>, <<>>, <<>>)

\* u64, little endian.  Every length of the model is below 2^31, so the
\* four high bytes are zero.
U64LE(n) == [i \in 1..LEN_PREFIX |-> IF i <= 4 THEN (n \div (256 ^ (i - 1))) % 256 ELSE 0]

\* Serialize with the two arrays written in the other order
SerializeSaltFirst(file) == U64LE(Len(file.data)) \o file.data \o file.salt \o file.nonce

\* bincode::serialize(&file): len(data) as u64, data, nonce, salt
Serialize(file) == U64LE(Len(file.data)) \o file.data \o file.nonce \o file.salt

\* The u64 read back.  A value of 2^31 or more is larger than the length of
\* any input of the model: Unreadable stands for it.
Unreadable == -1
ReadU64(buf) ==
  IF Len(buf) < LEN_PREFIX THEN Unreadable
  ELSE IF \E i \in 5..LEN_PREFIX : buf[i] # 0 THEN Unreadable
  ELSE IF buf[4] >= 128 THEN Unreadable
  ELSE buf[1] + 256 * buf[2] + 65536 * buf[3] + 16777216 * buf[4]

\* the slice reader: n bytes from position pos (1-based), or end of input
CanRead(buf, pos, n) == pos + n - 1 <= Len(buf)
Read(buf, pos, n) == SubSeq(buf, pos, pos + n - 1)

\* Deserialize refusing input that goes on after the salt
DeserializeNoTrailing(buf) ==
  LET l == ReadU64(buf)
  IN IF l = Unreadable THEN Fail
     ELSE IF Len(buf) # LEN_PREFIX + l + NONCE_LEN + SALT_LEN THEN Fail
     ELSE Ok(EncryptedFile(Read(buf, LEN_PREFIX + 1, l),
                           Read(buf, LEN_PREFIX + 1 + l, NONCE_LEN),
                           Read(buf, LEN_PREFIX + 1 + l + NONCE_LEN, SALT_LEN)))

\* bincode::deserialize::<EncryptedFile>(buf): the fields in order, each read
\* failing at the end of the input; bytes left over are not an error.
Deserialize(buf) ==
  LET l == ReadU64(buf)
      at_data == LEN_PREFIX + 1
      at_nonce == at_data + l
      at_salt == at_nonce + NONCE_LEN
  IN IF l = Unreadable THEN Fail
     ELSE IF ~CanRead(buf, at_data, l) THEN Fail
     ELSE IF ~CanRead(buf, at_nonce, NONCE_LEN) THEN Fail
     ELSE IF ~CanRead(buf, at_salt, SALT_LEN) THEN Fail
     ELSE Ok(EncryptedFile(Read(buf, at_data, l),
                           Read(buf, at_nonce, NONCE_LEN),
                           Read(buf, at_salt, SALT_LEN)))

(***************************************************************************)
(* argon2::hash_raw and Aes256GcmSiv                                       *)
(*                                                                         *)
(* Byte arithmetic standing in for the two primitives.  Every byte of the  *)
(* password, salt, nonce and plaintext enters the key or the tag with an   *)
(* odd weight modulo 256, so that a change of one byte changes the result: *)
(* on the inputs of the model no two keys and no two tags collide, which   *)
(* is what the real primitives give with overwhelming probability.         *)
(***************************************************************************)
RECURSIVE WeightedSum(_, _)
\* sum of (2i+1) * s[i] over the first n bytes of s, modulo 256
WeightedSum(s, n) ==
  IF n = 0 THEN 0 ELSE (WeightedSum(s, n - 1) + (2 * n + 1) * s[n]) % 256

\* what the password contributes to the key
PwdMix(pw) == (1 + 2 * Len(pw) + WeightedSum(pw, Len(pw))) % 256

\* HashRaw leaving the password out of the key
HashRawSaltOnly(password, salt) ==
  IF password.huge THEN Fail
  ELSE Ok([i \in 1..HASH_LEN |-> (salt[((i - 1) % Len(salt)) + 1] + i) % 256])

\* argon2::hash_raw(password, salt, config): HASH_LEN bytes, or an error for
\* a password the algorithm refuses (PwdTooLong).
HashRaw(password, salt) ==
  IF password.huge THEN Fail
  ELSE Ok([i \in 1..HASH_LEN |->
            (salt[((i - 1) % Len(salt)) + 1] + i * PwdMix(password.bytes)) % 256])

\* byte i of the keystream the cipher derives from the key and the nonce
KeyStream(key, nonce, i) ==
  (3 * key[((i - 1) % HASH_LEN) + 1] + 5 * nonce[((i - 1) % NONCE_LEN) + 1] + i) % 256

\* the TAG_LEN-byte authentication tag over key, nonce and plaintext
Tag(key, nonce, plain) ==
  [j \in 1..TAG_LEN |->
     (key[j] + 3 * key[j + TAG_LEN] + 5 * nonce[((j - 1) % NONCE_LEN) + 1]
        + 7 * j * Len(plain) + WeightedSum(plain, Len(plain))) % 256]

\* cipher.encrypt(nonce, data): the masked plaintext followed by the tag, or
\* an error for a plaintext the cipher refuses (longer than P_MAX).
AeadEncrypt(key, nonce, plain) ==
  IF plain.huge THEN Fail
  ELSE Ok([i \in 1..Len(plain.bytes) |->
             (plain.bytes[i] + KeyStream(key, nonce, i)) % 256]
          \o Tag(key, nonce, plain.bytes))

\* AeadDecrypt returning the unmasked bytes without comparing the tag
AeadDecryptNoTag(key, nonce, ct) ==
  IF Len(ct) < TAG_LEN THEN Fail
  ELSE Ok([i \in 1..(Len(ct) - TAG_LEN) |-> (ct[i] + 256 - KeyStream(key, nonce, i)) % 256])

\* cipher.decrypt(nonce, data): the plaintext when the tag verifies.
AeadDecrypt(key, nonce, ct) ==
  IF Len(ct) < TAG_LEN THEN Fail
  ELSE LET n == Len(ct) - TAG_LEN
           plain == [i \in 1..n |-> (ct[i] + 256 - KeyStream(key, nonce, i)) % 256]
       IN IF SubSeq(ct, n + 1, Len(ct)) = Tag(key, nonce, plain)
          THEN Ok(plain) ELSE Fail

(***************************************************************************)
(* encrypt and decrypt as functions of their arguments and random draws    *)
(***************************************************************************)
\* pub fn encrypt(data, password), with the salt and nonce OsRng returned.
\* bincode::serialize has no failing case for this struct, so
\* EncodingFailure is never returned.
encrypt(data, password, salt, nonce_rand) ==
  LET hashed == HashRaw(password, salt)
  IN IF ~hashed.ok THEN Err("KeyGenerationFailure")
     ELSE LET ciphertext == AeadEncrypt(hashed.val, nonce_rand, data)
          IN IF ~ciphertext.ok THEN Err("IncorrectPassword")
             ELSE Ok(Serialize(EncryptedFile(ciphertext.val, nonce_rand, salt)))

\* pub fn decrypt(data, password)
decrypt(data, password) ==
  LET decoded == Deserialize(data)
  IN IF ~decoded.ok THEN Err("DecodingFailure")
     ELSE LET hashed == HashRaw(password, decoded.val.salt)
          IN IF ~hashed.ok THEN Err("KeyGenerationFailure")
             ELSE LET plain == AeadDecrypt(hashed.val, decoded.val.nonce, decoded.val.data)
                  IN IF ~plain.ok THEN Err("IncorrectPassword")
                     ELSE Ok(plain.val)

(***************************************************************************)
(* The callers: each thread makes one call after another.  A call keeps    *)
(* its arguments, locals and result to itself.  trace and origin record    *)
(* what a call did and where the bytes handed to decrypt came from; the    *)
(* program does not read them.                                             *)
(***************************************************************************)
VARIABLES
  pc,        \* [Threads -> position in encrypt or decrypt]
  op,        \* [Threads -> "none" | "encrypt" | "decrypt"]
  data,      \* [Threads -> the data argument]
  password,  \* [Threads -> the password argument]
  local,     \* [Threads -> salt, key, nonce_rand, ciphertext, decoded]
  result,    \* [Threads -> the value returned, once pc is "done"]
  trace,     \* [Threads -> the stages the call ran, with the salt or nonce used]
  origin     \* [Threads -> how the caller made decrypt's input]

vars == <<pc, op, data, password, local, result, trace, origin>>

NoLocal == [salt |-> <<>>, key |-> <<>>, nonce |-> <<>>, ciphertext |-> <<>>, decoded |-> NoFile]
Pending == [ok |-> FALSE, val |-> <<>>, err |-> "pending"]
NoOrigin == [kind |-> "none", plain |-> Slice(<<>>), pwd |-> Slice(<<>>), sealed |-> <<>>, bit |-> 0]
Stage(name, arg) == [op |-> name, arg |-> arg]

Init ==
  /\ pc = [t \in Threads |-> "idle"]
  /\ op = [t \in Threads |-> "none"]
  /\ data = [t \in Threads |-> Slice(<<>>)]
  /\ password = [t \in Threads |-> Slice(<<>>)]
  /\ local = [t \in Threads |-> NoLocal]
  /\ result = [t \in Threads |-> Pending]
  /\ trace = [t \in Threads |-> <<>>]
  /\ origin = [t \in Threads |-> NoOrigin]

Returned(t) == pc[t] = "done"
\* the caller of t holds a sealed container: one encrypt returned to it, or
\* one it handed to decrypt unchanged
Holds(t) ==
  \/ Returned(t) /\ op[t] = "encrypt" /\ result[t].ok
  \/ op[t] = "decrypt" /\ origin[t].kind = "sealed"
\* t may start a call: at once with a container in hand, otherwise after
\* Release
Callable(t) == pc[t] = "idle" \/ (Returned(t) /\ Holds(t))

\* the call of thread t returns r
Return(t, r) ==
  /\ pc' = [pc EXCEPT ![t] = "done"]
  /\ result' = [result EXCEPT ![t] = r]

(***************************************************************************)
(* What the caller hands to decrypt                                        *)
(***************************************************************************)
\* the containers a caller holds: what an encrypt call returned, or what a
\* decrypt call was handed unchanged
SealedHeld ==
  {IF op[t] = "encrypt"
   THEN [plain |-> data[t], pwd |-> password[t], sealed |-> result[t].val]
   ELSE [plain |-> origin[t].plain, pwd |-> origin[t].pwd, sealed |-> origin[t].sealed] :
      t \in {u \in Threads : Holds(u)}}

FlipByte(b, k) == IF (b \div (2 ^ k)) % 2 = 1 THEN b - 2 ^ k ELSE b + 2 ^ k
\* bit n (from 0) of buf flipped: bit n % 8 of byte n \div 8 (from 1)
FlipBit(buf, n) == [buf EXCEPT ![(n \div 8) + 1] = FlipByte(@, n % 8)]

Extras == SeqsUpTo(ExtraBytes, MaxExtra) \ {<<>>}
GarbageLens == {0, 51, 52}
GarbageBytes == {0, 1}
Garbage == {Fill(n, b) : n \in GarbageLens, b \in GarbageBytes}

Made(kind, s, bytes, bit) ==
  [input |-> bytes,
   from |-> [kind |-> kind, plain |-> s.plain, pwd |-> s.pwd, sealed |-> s.sealed, bit |-> bit]]

\* the inputs of the given kinds a caller can make from what it holds: a
\* container as it is, each of its proper prefixes (the empty one included),
\* the container followed by extra bytes, the container with any one bit
\* flipped, and bytes that never were a container
Inputs(kinds) ==
  UNION {
    {Made("sealed", s, s.sealed, 0) : s \in {x \in SealedHeld : "sealed" \in kinds}},
    UNION {{Made("truncated", s, SubSeq(s.sealed, 1, k), 0) : k \in 0..(Len(s.sealed) - 1)} :
        s \in {x \in SealedHeld : "truncated" \in kinds}},
    {Made("extended", s, s.sealed \o e, 0) :
        s \in {x \in SealedHeld : "extended" \in kinds}, e \in Extras},
    UNION {{Made("flipped", s, FlipBit(s.sealed, n), n) : n \in 0..(8 * Len(s.sealed) - 1)} :
        s \in {x \in SealedHeld : "flipped" \in kinds}},
    {[input |-> g, from |-> [NoOrigin EXCEPT !.kind = "garbage"]] :
        g \in {x \in Garbage : "garbage" \in kinds}}
  }

(***************************************************************************)
(* encrypt, statement by statement                                         *)
(***************************************************************************)
\* a thread calls encrypt(d, pw)
EncryptCall(t, d, pw) ==
  /\ Callable(t)
  /\ pc' = [pc EXCEPT ![t] = "e_salt"]
  /\ op' = [op EXCEPT ![t] = "encrypt"]
  /\ data' = [data EXCEPT ![t] = d]
  /\ password' = [password EXCEPT ![t] = pw]
  /\ local' = [local EXCEPT ![t] = NoLocal]
  /\ result' = [result EXCEPT ![t] = Pending]
  /\ trace' = [trace EXCEPT ![t] = <<>>]
  /\ origin' = [origin EXCEPT ![t] = NoOrigin]

\* let mut salt = [0u8; 32]; OsRng.fill_bytes(&mut salt);
EncSalt(t) ==
  /\ pc[t] = "e_salt"
  /\ \E s \in RandomFill(SALT_LEN) :
       /\ local' = [local EXCEPT ![t].salt = s]
       /\ trace' = [trace EXCEPT ![t] = Append(@, Stage("fill_salt", s))]
  /\ pc' = [pc EXCEPT ![t] = "e_hash"]
  /\ UNCHANGED <<op, data, password, result, origin>>

\* argon2::hash_raw(password, &salt, &config).map_err(KeyGenerationFailure)?
EncHash(t) ==
  /\ pc[t] = "e_hash"
  /\ LET hashed == HashRaw(password[t], local[t].salt)
     IN IF hashed.ok
        THEN /\ local' = [local EXCEPT ![t].key = hashed.val]
             /\ pc' = [pc EXCEPT ![t] = "e_nonce"]
             /\ UNCHANGED result
        ELSE /\ Return(t, Err("KeyGenerationFailure"))
             /\ UNCHANGED local
  /\ trace' = [trace EXCEPT ![t] = Append(@, Stage("hash_raw", local[t].salt))]
  /\ UNCHANGED <<op, data, password, origin>>

\* let mut nonce_rand = [0u8; 12]; OsRng.fill_bytes(&mut nonce_rand);
EncNonce(t) ==
  /\ pc[t] = "e_nonce"
  /\ \E n \in RandomFill(NONCE_LEN) :
       /\ local' = [local EXCEPT ![t].nonce = n]
       /\ trace' = [trace EXCEPT ![t] = Append(@, Stage("fill_nonce", n))]
  /\ pc' = [pc EXCEPT ![t] = "e_cipher"]
  /\ UNCHANGED <<op, data, password, result, origin>>

\* EncCipher encrypting under the head of the salt instead of nonce_rand
EncCipherOtherNonce(t) ==
  /\ pc[t] = "e_cipher"
  /\ LET ciphertext == AeadEncrypt(local[t].key, SubSeq(local[t].salt, 1, NONCE_LEN), data[t])
     IN IF ciphertext.ok
        THEN /\ local' = [local EXCEPT ![t].ciphertext = ciphertext.val]
             /\ pc' = [pc EXCEPT ![t] = "e_pack"]
             /\ UNCHANGED result
        ELSE /\ Return(t, Err("IncorrectPassword"))
             /\ UNCHANGED local
  /\ trace' = [trace EXCEPT ![t] = Append(@, Stage("aead_encrypt", local[t].nonce))]
  /\ UNCHANGED <<op, data, password, origin>>

\* cipher.encrypt(nonce, data).map_err(IncorrectPassword)?
EncCipher(t) ==
  /\ pc[t] = "e_cipher"
  /\ LET ciphertext == AeadEncrypt(local[t].key, local[t].nonce, data[t])
     IN IF ciphertext.ok
        THEN /\ local' = [local EXCEPT ![t].ciphertext = ciphertext.val]
             /\ pc' = [pc EXCEPT ![t] = "e_pack"]
             /\ UNCHANGED result
        ELSE /\ Return(t, Err("IncorrectPassword"))
             /\ UNCHANGED local
  /\ trace' = [trace EXCEPT ![t] = Append(@, Stage("aead_encrypt", local[t].nonce))]
  /\ UNCHANGED <<op, data, password, origin>>

\* PackedFile storing a zeroed nonce buffer instead of nonce_rand
PackedFileBlankNonce(l) == EncryptedFile(l.ciphertext, Fill(NONCE_LEN, 0), l.salt)

\* the EncryptedFile built from the call's ciphertext, nonce_rand and salt
PackedFile(l) == EncryptedFile(l.ciphertext, l.nonce, l.salt)

\* bincode::serialize(&file).map_err(EncodingFailure): serializing a
\* Vec<u8> and two byte arrays into a Vec has no failing case.
EncPack(t) ==
  /\ pc[t] = "e_pack"
  /\ Return(t, Ok(Serialize(PackedFile(local[t]))))
  /\ trace' = [trace EXCEPT ![t] = Append(@, Stage("serialize", <<>>))]
  /\ UNCHANGED <<op, data, password, local, origin>>

(***************************************************************************)
(* decrypt, statement by statement                                         *)
(***************************************************************************)
\* a thread calls decrypt(input, pw) on bytes of one of the given kinds
DecryptCall(t, pw, kinds) ==
  /\ Callable(t)
  /\ \E m \in Inputs(kinds) :
       /\ data' = [data EXCEPT ![t] = Slice(m.input)]
       /\ origin' = [origin EXCEPT ![t] = m.from]
  /\ pc' = [pc EXCEPT ![t] = "d_unpack"]
  /\ op' = [op EXCEPT ![t] = "decrypt"]
  /\ password' = [password EXCEPT ![t] = pw]
  /\ local' = [local EXCEPT ![t] = NoLocal]
  /\ result' = [result EXCEPT ![t] = Pending]
  /\ trace' = [trace EXCEPT ![t] = <<>>]

\* DecUnpack reporting a failed decode as IncorrectPassword
DecUnpackWrongKind(t) ==
  /\ pc[t] = "d_unpack"
  /\ LET decoded == Deserialize(data[t].bytes)
     IN IF decoded.ok
        THEN /\ local' = [local EXCEPT ![t].decoded = decoded.val]
             /\ pc' = [pc EXCEPT ![t] = "d_hash"]
             /\ UNCHANGED result
        ELSE /\ Return(t, Err("IncorrectPassword"))
             /\ UNCHANGED local
  /\ trace' = [trace EXCEPT ![t] = Append(@, Stage("deserialize", <<>>))]
  /\ UNCHANGED <<op, data, password, origin>>

\* DecUnpack going on with an empty file when the decode fails
DecUnpackGoesOn(t) ==
  /\ pc[t] = "d_unpack"
  /\ LET decoded == Deserialize(data[t].bytes)
     IN local' = [local EXCEPT ![t].decoded =
                    IF decoded.ok THEN decoded.val
                    ELSE EncryptedFile(<<>>, Fill(NONCE_LEN, 0), Fill(SALT_LEN, 0))]
  /\ pc' = [pc EXCEPT ![t] = "d_hash"]
  /\ trace' = [trace EXCEPT ![t] = Append(@, Stage("deserialize", <<>>))]
  /\ UNCHANGED <<op, data, password, result, origin>>

\* bincode::deserialize(data).map_err(DecodingFailure)?
DecUnpack(t) ==
  /\ pc[t] = "d_unpack"
  /\ LET decoded == Deserialize(data[t].bytes)
     IN IF decoded.ok
        THEN /\ local' = [local EXCEPT ![t].decoded = decoded.val]
             /\ pc' = [pc EXCEPT ![t] = "d_hash"]
             /\ UNCHANGED result
        ELSE /\ Return(t, Err("DecodingFailure"))
             /\ UNCHANGED local
  /\ trace' = [trace EXCEPT ![t] = Append(@, Stage("deserialize", <<>>))]
  /\ UNCHANGED <<op, data, password, origin>>

\* DecHash taking the key another call has derived, when there is one
DecHashCached(t) ==
  /\ pc[t] = "d_hash"
  /\ LET others == {u \in Threads \ {t} : local[u].key # <<>>}
         hashed == IF others # {} THEN Ok(local[CHOOSE u \in others : TRUE].key)
                   ELSE HashRaw(password[t], local[t].decoded.salt)
     IN IF hashed.ok
        THEN /\ local' = [local EXCEPT ![t].key = hashed.val]
             /\ pc' = [pc EXCEPT ![t] = "d_cipher"]
             /\ UNCHANGED result
        ELSE /\ Return(t, Err("KeyGenerationFailure"))
             /\ UNCHANGED local
  /\ trace' = [trace EXCEPT ![t] = Append(@, Stage("hash_raw", local[t].decoded.salt))]
  /\ UNCHANGED <<op, data, password, origin>>

\* argon2::hash_raw(password, &decoded.salt, &config).map_err(KeyGenerationFailure)?
DecHash(t) ==
  /\ pc[t] = "d_hash"
  /\ LET hashed == HashRaw(password[t], local[t].decoded.salt)
     IN IF hashed.ok
        THEN /\ local' = [local EXCEPT ![t].key = hashed.val]
             /\ pc' = [pc EXCEPT ![t] = "d_cipher"]
             /\ UNCHANGED result
        ELSE /\ Return(t, Err("KeyGenerationFailure"))
             /\ UNCHANGED local
  /\ trace' = [trace EXCEPT ![t] = Append(@, Stage("hash_raw", local[t].decoded.salt))]
  /\ UNCHANGED <<op, data, password, origin>>

\* cipher.decrypt(nonce, decoded.data).map_err(IncorrectPassword)
DecCipher(t) ==
  /\ pc[t] = "d_cipher"
  /\ LET plain == AeadDecrypt(local[t].key, local[t].decoded.nonce, local[t].decoded.data)
     IN Return(t, IF plain.ok THEN Ok(plain.val) ELSE Err("IncorrectPassword"))
  /\ trace' = [trace EXCEPT ![t] = Append(@, Stage("aead_decrypt", local[t].decoded.nonce))]
  /\ UNCHANGED <<op, data, password, local, origin>>

\* the caller is done with what the call returned
Release(t) ==
  /\ Returned(t)
  /\ pc' = [pc EXCEPT ![t] = "idle"]
  /\ op' = [op EXCEPT ![t] = "none"]
  /\ data' = [data EXCEPT ![t] = Slice(<<>>)]
  /\ password' = [password EXCEPT ![t] = Slice(<<>>)]
  /\ local' = [local EXCEPT ![t] = NoLocal]
  /\ result' = [result EXCEPT ![t] = Pending]
  /\ trace' = [trace EXCEPT ![t] = <<>>]
  /\ origin' = [origin EXCEPT ![t] = NoOrigin]

(***************************************************************************)
(* Specifications                                                          *)
(***************************************************************************)
AllKinds == {"sealed", "truncated", "extended", "flipped", "garbage"}
PlainKinds == {"sealed", "garbage"}

Step(t, kinds) ==
  \/ \E d \in Plaintexts, pw \in Passwords : EncryptCall(t, d, pw)
  \/ EncSalt(t)
  \/ EncHash(t)
  \/ EncNonce(t)
  \/ EncCipher(t)
  \/ EncPack(t)
  \/ \E pw \in Passwords : DecryptCall(t, pw, kinds)
  \/ DecUnpack(t)
  \/ DecHash(t)
  \/ DecCipher(t)
  \/ Release(t)

\* several threads, their statements interleaved
Next == \E t \in Threads : Step(t, PlainKinds)
Spec == Init /\ [][Next]_vars

\* one caller, handing decrypt every alteration of what encrypt returned
NextSeq == Step(1, AllKinds)
SpecSeq == Init /\ [][NextSeq]_vars

(***************************************************************************)
(* Properties                                                              *)
(***************************************************************************)
Encrypted(t) == Returned(t) /\ op[t] = "encrypt"
Decrypted(t) == Returned(t) /\ op[t] = "decrypt"
\* decrypt returned, having been handed input the caller made in this way
DecryptedOf(t, kind) == Decrypted(t) /\ origin[t].kind = kind
LastStage(t) == trace[t][Len(trace[t])].op
StageNames(t) == [i \in 1..Len(trace[t]) |-> trace[t][i].op]

\* C1, as stated: for every plaintext p and every password pw, encrypt
\* returns a container and decrypt of it under pw returns Ok(p).
RoundTripEveryInput ==
  \A t \in Threads :
    Encrypted(t) =>
      /\ result[t].ok
      /\ decrypt(result[t].val, password[t]) = Ok(data[t].bytes)

\* C1, amended: whenever encrypt returns a container (it does for every
\* plaintext the cipher accepts and every password the key derivation
\* accepts, and only for those), decrypt of that container under the same
\* password returns Ok of the plaintext, whatever salt and nonce were drawn.
RoundTrip ==
  /\ \A t \in Threads :
       Encrypted(t) =>
         /\ result[t].ok <=> (~data[t].huge /\ ~password[t].huge)
         /\ result[t].ok => decrypt(result[t].val, password[t]) = Ok(data[t].bytes)
  /\ \A t \in Threads :
       (DecryptedOf(t, "sealed") /\ password[t] = origin[t].pwd) =>
          result[t] = Ok(origin[t].plain.bytes)

\* C1 witness: a decrypt call returned the non-empty plaintext of a
\* container sealed with a random salt and nonce that are not all zero.
RoundTripWitness ==
  \E t \in Threads :
    /\ DecryptedOf(t, "sealed")
    /\ password[t] = origin[t].pwd
    /\ origin[t].plain.bytes # <<>>
    /\ result[t] = Ok(origin[t].plain.bytes)
    /\ local[t].decoded.salt # Fill(SALT_LEN, 0)
    /\ local[t].decoded.nonce # Fill(NONCE_LEN, 0)

\* C2, as stated: decrypt of a sealed container under any other password
\* returns Err(IncorrectPassword), never Ok and never another error.
WrongPasswordAlwaysIncorrect ==
  \A t \in Threads :
    (DecryptedOf(t, "sealed") /\ password[t] # origin[t].pwd) =>
       result[t] = Err("IncorrectPassword")

\* C2, amended: decrypt of a sealed container under another password never
\* returns Ok; it returns Err(IncorrectPassword) for every other password
\* the key derivation accepts, and Err(KeyGenerationFailure) for one it
\* refuses (longer than 2^32-1 bytes).
WrongPasswordRejected ==
  \A t \in Threads :
    (DecryptedOf(t, "sealed") /\ password[t] # origin[t].pwd) =>
       result[t] = IF password[t].huge THEN Err("KeyGenerationFailure")
                   ELSE Err("IncorrectPassword")

\* C2 witness: a sealed container met a different, acceptable password and
\* decrypt returned IncorrectPassword.
WrongPasswordWitness ==
  \E t \in Threads :
    /\ DecryptedOf(t, "sealed")
    /\ password[t] # origin[t].pwd
    /\ ~password[t].huge
    /\ result[t] = Err("IncorrectPassword")

\* the first bit after the length prefix, and the regions of a container
FirstFieldBit == 8 * LEN_PREFIX
InSalt(t) == origin[t].bit >= 8 * (Len(origin[t].sealed) - SALT_LEN)
InNonce(t) ==
  /\ ~InSalt(t)
  /\ origin[t].bit >= 8 * (Len(origin[t].sealed) - SALT_LEN - NONCE_LEN)
InCiphertext(t) == origin[t].bit >= FirstFieldBit /\ ~InSalt(t) /\ ~InNonce(t)

\* C3: a sealed container with one bit flipped in its ciphertext, nonce or
\* salt, decrypted under the password it was sealed with, returns
\* Err(IncorrectPassword) or Err(DecodingFailure), never Ok.
TamperDetected ==
  \A t \in Threads :
    (/\ DecryptedOf(t, "flipped")
     /\ origin[t].bit >= FirstFieldBit
     /\ password[t] = origin[t].pwd) =>
       /\ ~result[t].ok
       /\ result[t].err \in {"IncorrectPassword", "DecodingFailure"}

\* C3 witness: a flip inside the salt of a container with a non-empty
\* plaintext was decrypted under the right password and rejected.
TamperWitness ==
  \E t \in Threads :
    /\ DecryptedOf(t, "flipped")
    /\ InSalt(t)
    /\ password[t] = origin[t].pwd
    /\ origin[t].plain.bytes # <<>>
    /\ result[t] = Err("IncorrectPassword")

\* the input ends before the fields its first eight bytes announce
TooShort(buf) ==
  \/ Len(buf) < LEN_PREFIX
  \/ ReadU64(buf) = Unreadable
  \/ Len(buf) < LEN_PREFIX + ReadU64(buf) + NONCE_LEN + SALT_LEN

SameCall(t, u) == data[t] = data[u] /\ password[t] = password[u]
SameDraws(t, u) == local[t].salt = local[u].salt /\ local[t].nonce = local[u].nonce

\* C5, as stated: two encrypt calls with the same plaintext and password
\* never return the same bytes, and every output decrypts to the plaintext.
SealNeverRepeats ==
  \A t, u \in Threads :
    (t # u /\ Encrypted(t) /\ Encrypted(u) /\ result[t].ok /\ result[u].ok /\ SameCall(t, u)) =>
       /\ result[t].val # result[u].val
       /\ decrypt(result[t].val, password[t]) = Ok(data[t].bytes)

\* C5, amended: two encrypt calls with the same plaintext and password
\* return the same bytes exactly when OsRng gave both the same salt and the
\* same nonce (nothing in encrypt keeps earlier draws apart from later
\* ones), and every output decrypts to the plaintext under that password.
SealDiffersWithDraws ==
  \A t, u \in Threads :
    (t # u /\ Encrypted(t) /\ Encrypted(u) /\ result[t].ok /\ result[u].ok /\ SameCall(t, u)) =>
       /\ (result[t].val = result[u].val) <=> SameDraws(t, u)
       /\ decrypt(result[t].val, password[t]) = Ok(data[t].bytes)
       /\ decrypt(result[u].val, password[u]) = Ok(data[u].bytes)

\* C5 witness: two calls with the same arguments and the same salt but
\* different nonces returned different bytes.
SealWitness ==
  \E t, u \in Threads :
    /\ t # u /\ Encrypted(t) /\ Encrypted(u) /\ result[t].ok /\ result[u].ok
    /\ SameCall(t, u)
    /\ local[t].salt = local[u].salt
    /\ local[t].nonce # local[u].nonce
    /\ result[t].val # result[u].val

\* C6: every error kind has one cause: IncorrectPassword only from the tag
\* check of decrypt, DecodingFailure only from decrypt's deserialization,
\* EncodingFailure only from encrypt's serialization, KeyGenerationFailure
\* only from key derivation.
ErrorKindsOneCause ==
  \A t \in Threads :
    (Returned(t) /\ ~result[t].ok) =>
       /\ result[t].err \in CryptographyError
       /\ result[t].err = "IncorrectPassword" =>
            (op[t] = "decrypt" /\ LastStage(t) = "aead_decrypt")
       /\ result[t].err = "DecodingFailure" =>
            (op[t] = "decrypt" /\ LastStage(t) = "deserialize")
       /\ result[t].err = "EncodingFailure" =>
            (op[t] = "encrypt" /\ LastStage(t) = "serialize")
       /\ result[t].err = "KeyGenerationFailure" => LastStage(t) = "hash_raw"

\* the state of a call
CallState(t) ==
  <<pc[t], op[t], data[t], password[t], local[t], result[t], trace[t], origin[t]>>
CallStateNext(t) ==
  <<pc'[t], op'[t], data'[t], password'[t], local'[t], result'[t], trace'[t], origin'[t]>>

\* what the call returns when it runs alone with the same arguments and draws
Alone(t) ==
  IF op[t] = "encrypt"
  THEN encrypt(data[t], password[t], local[t].salt, local[t].nonce)
  ELSE decrypt(data[t].bytes, password[t])

\* C7: under every interleaving, each call returns what it returns running
\* alone with the same arguments and the same salt and nonce draws, and a
\* step of one call leaves the state of every other call as it was.
CallsIndependent ==
  /\ [](\A t \in Threads : Returned(t) => result[t] = Alone(t))
  /\ [][\E t \in Threads : \A u \in Threads \ {t} : CallStateNext(u) = CallState(u)]_vars

\* C7 witness: a decrypt call returned a plaintext while another call was
\* between its key derivation and its cipher step.
IndependentWitness ==
  \E t, u \in Threads :
    /\ t # u
    /\ Decrypted(t) /\ result[t].ok /\ result[t].val # <<>>
    /\ pc[u] \in {"e_nonce", "e_cipher", "d_cipher"}
    /\ local[u].key # local[t].key

\* the salt and nonce stored in the input, by position
StoredSalt(buf) == SubSeq(buf, LEN_PREFIX + ReadU64(buf) + NONCE_LEN + 1,
                          LEN_PREFIX + ReadU64(buf) + NONCE_LEN + SALT_LEN)
StoredNonce(buf) == SubSeq(buf, LEN_PREFIX + ReadU64(buf) + 1,
                           LEN_PREFIX + ReadU64(buf) + NONCE_LEN)

\* C8: decrypt unpacks, then derives the key from the stored salt, then
\* decrypts with the stored nonce; the first failing stage ends the call
\* with its own error kind, so after a failed unpack neither key derivation
\* nor the cipher runs.
StageOrder ==
  \A t \in Threads :
    op[t] = "decrypt" =>
      /\ \E n \in 0..3 : StageNames(t) = SubSeq(<<"deserialize", "hash_raw", "aead_decrypt">>, 1, n)
      /\ \A i \in 1..Len(trace[t]) :
           /\ trace[t][i].op = "hash_raw" =>
                (~TooShort(data[t].bytes) /\ trace[t][i].arg = StoredSalt(data[t].bytes))
           /\ trace[t][i].op = "aead_decrypt" =>
                (~TooShort(data[t].bytes) /\ trace[t][i].arg = StoredNonce(data[t].bytes))
      /\ Returned(t) =>
           /\ TooShort(data[t].bytes) =>
                (result[t] = Err("DecodingFailure") /\ StageNames(t) = <<"deserialize">>)
           /\ (~TooShort(data[t].bytes) /\ password[t].huge) =>
                (result[t] = Err("KeyGenerationFailure")
                 /\ StageNames(t) = <<"deserialize", "hash_raw">>)
           /\ (~TooShort(data[t].bytes) /\ ~password[t].huge) =>
                (/\ StageNames(t) = <<"deserialize", "hash_raw", "aead_decrypt">>
                 /\ (result[t].ok \/ result[t] = Err("IncorrectPassword")))

\* C8 witness: decrypt was handed a sealed container cut off after its
\* length prefix and ciphertext, failed at unpacking and ran nothing else.
StageOrderWitness ==
  \E t \in Threads :
    /\ DecryptedOf(t, "truncated")
    /\ Len(data[t].bytes) >= LEN_PREFIX + NONCE_LEN + SALT_LEN
    /\ result[t] = Err("DecodingFailure")
    /\ StageNames(t) = <<"deserialize">>

\* C9: deserializing the serialized EncryptedFile succeeds and gives back
\* its ciphertext, nonce and salt: for the file encrypt packed, and for
\* every file decrypt decoded (whose data may have any length, zero included).
PackUnpack ==
  \A t \in Threads :
    /\ (Encrypted(t) /\ result[t].ok) =>
         Deserialize(result[t].val) = Ok(PackedFile(local[t]))
    /\ (op[t] = "decrypt" /\ local[t].decoded # NoFile) =>
         Deserialize(Serialize(local[t].decoded)) = Ok(local[t].decoded)

\* C9 witness: encrypt packed a file whose nonce and salt differ and whose
\* ciphertext is longer than the tag.
PackUnpackWitness ==
  \E t \in Threads :
    /\ Encrypted(t) /\ result[t].ok
    /\ Len(local[t].ciphertext) > TAG_LEN
    /\ SubSeq(local[t].salt, 1, NONCE_LEN) # local[t].nonce

\* C10: decrypt reads an 8-byte little-endian length L, L ciphertext bytes,
\* a 12-byte nonce and a 32-byte salt; it returns Err(DecodingFailure)
\* exactly when the input is shorter than 8 + L + 44 bytes, so always under
\* 52 bytes; bytes after the salt are ignored: a container followed by extra
\* bytes decrypts to what the container decrypts to.
DecodingBoundary ==
  \A t \in Threads :
    /\ Decrypted(t) =>
         /\ result[t] = Err("DecodingFailure") <=> TooShort(data[t].bytes)
         /\ Len(data[t].bytes) < LEN_PREFIX + NONCE_LEN + SALT_LEN =>
              result[t] = Err("DecodingFailure")
    /\ (op[t] = "decrypt" /\ pc[t] \in {"d_hash", "d_cipher"}) =>
         LET l == ReadU64(data[t].bytes)
         IN /\ local[t].decoded.data = SubSeq(data[t].bytes, LEN_PREFIX + 1, LEN_PREFIX + l)
            /\ local[t].decoded.nonce = StoredNonce(data[t].bytes)
            /\ local[t].decoded.salt = StoredSalt(data[t].bytes)
    /\ DecryptedOf(t, "extended") => result[t] = decrypt(origin[t].sealed, password[t])

\* C10 witness: a container followed by an extra byte decrypted to its
\* plaintext.
DecodingBoundaryWitness ==
  \E t \in Threads :
    /\ DecryptedOf(t, "extended")
    /\ Len(data[t].bytes) > Len(origin[t].sealed)
    /\ result[t] = Ok(origin[t].plain.bytes)
    /\ origin[t].plain.bytes # <<>>

====
